---- MODULE Spec2Model ----
(***************************************************************************)
(* pyri_tooltip: the tooltip context resolver (update_tooltip_context) and *)
(* the hide / show steps of src/src/context.rs, as a state machine.        *)
(*                                                                         *)
(* One frame is the chain  update_tooltip_context -> hide_tooltip ->       *)
(* show_tooltip  in PreUpdate (context.rs:28-37), then place_tooltip in    *)
(* PostUpdate (placement.rs:22-32).  The host's inputs of a frame (frame   *)
(* delta, pointer position of the focused window, Interaction components)  *)
(* are parameters of the resolver's action; the application may replace    *)
(* the Tooltip component of an element between two frames.                 *)
(***************************************************************************)
EXTENDS Integers, Sequences, FiniteSets, TLC

----------------------------------------------------------------------------
(* Bounds of the model.                                                    *)

\* Largest configured activation delay (ms).
MaxDelay == 2
\* Largest configured transfer timeout (ms).
MaxTimeout == 2
\* Largest frame delta (ms) below the u16 range that a frame may take.
MaxDelta == 2
ViewportPx == 6

----------------------------------------------------------------------------
(* Program constants.                                                      *)

\* timer is a u16, and the frame delta is cast with `as u16`.
U16Range == 65536

\* f32::INFINITY as a dismissal distance (stands outside the naturals).
INFINITY == -1

\* The finite dismissal radius used by the configurations of the model.
Radius == 4

----------------------------------------------------------------------------
(* Entities.                                                               *)

PLACEHOLDER == "PLACEHOLDER"

\* Elements that carry a Tooltip component and an Interaction component.
Targets == {"a", "b"}

\* UiStack::uinodes, bottom to top.  "n" is a node without a Tooltip.
UiStack == <<"a", "b", "n">>

\* TooltipSettings: the shared primary container and its text element.
\* The camera entity the UI of the targets renders to.
UiCamera == "camera"
PrimaryContainer == "container"
PrimaryText == "text"

\* Custom content elements.
CustomEntities == {"c1", "c2"}

\* Every element whose Visibility the hide / show steps may toggle.
ContentEntities == {PrimaryContainer} \cup CustomEntities

\* RichText values; "" is RichText::default().
EmptyText == ""
Texts == {"t1", "t2"}

----------------------------------------------------------------------------
(* Tooltip component values.                                               *)

Primary(text) == [kind |-> "Primary", text |-> text, id |-> PLACEHOLDER]
Custom(id) == [kind |-> "Custom", text |-> EmptyText, id |-> id]

Contents == {Primary(t) : t \in Texts} \cup {Custom(c) : c \in CustomEntities}

\* Lengths and coordinates (f32) are whole numbers of eighths of a pixel;
\* the inputs are multiples of a quarter pixel, so that halving a size and
\* taking the midpoint of two bounds are exact, as they are in f32.
Px(n) == 8 * n
Quarter(n) == 2 * n

\* Anchor, by twice its as_vec() (Anchor::TOP_LEFT is (-0.5, 0.5)).
TOP_LEFT == <<-1, 1>>
CENTER == <<0, 0>>
BOTTOM_RIGHT == <<1, -1>>

\* Val::Px(v), Val::Percent(v) and Val::Auto; UiRect.
ValPx(v) == [kind |-> "Px", v |-> v]
ValPercent(v) == [kind |-> "Percent", v |-> v]
ValAuto == [kind |-> "Auto", v |-> 0]
ValZERO == ValPx(0)
UiRect(left, right, top, bottom) ==
    [left |-> left, right |-> right, top |-> top, bottom |-> bottom]
UiRectZERO == UiRect(ValZERO, ValZERO, ValZERO, ValZERO)

\* TargetPoint::Cursor { follow } and TargetPoint::Fixed(anchor).
CursorPoint(follow) == [kind |-> "Cursor", follow |-> follow]
Fixed(anchor) == [kind |-> "Fixed", follow |-> FALSE, anchor |-> anchor]
FixedPoint == Fixed(CENTER)

\* TooltipPlacement and its preset CURSOR.
TooltipPlacement(anchor_point, target_point, offset_x, offset_y, clamp_padding) ==
    [anchor_point |-> anchor_point, target_point |-> target_point,
     offset_x |-> offset_x, offset_y |-> offset_y,
     clamp_padding |-> clamp_padding]

PlacementCURSORNoOffset ==
    TooltipPlacement(TOP_LEFT, CursorPoint(FALSE), ValZERO, ValZERO, UiRectZERO)

PlacementCURSOR ==
    TooltipPlacement(TOP_LEFT, CursorPoint(FALSE), ValPx(Px(16)), ValPx(Px(16)),
                     UiRectZERO)

TargetPoints == {CursorPoint(FALSE), CursorPoint(TRUE), FixedPoint}

Delays == {0, MaxDelay}
Timeouts == {0, MaxTimeout}

\* Option<i8>: None is {}, Some(g) is {g}.
None == {}
Some(g) == {g}
Groups == {None, Some(0), Some(1)}
Layers == {0, 1}

Activations == [delay : Delays, reset_delay_on_cursor_move : BOOLEAN]
Dismissals == [on_distance : {INFINITY, Radius}, on_click : BOOLEAN]
Transfers == [group : Groups, layer : Layers, timeout : Timeouts, from_active : BOOLEAN]

MkTooltip(content, target_point, activation, dismissal, transfer) ==
    [content |-> content,
     placement |-> TooltipPlacement(CENTER, target_point, ValZERO, ValZERO,
                                    UiRectZERO),
     activation |-> activation,
     dismissal |-> dismissal,
     transfer |-> transfer]

WithPlacement(tooltip, placement) == [tooltip EXCEPT !.placement = placement]

\* TooltipTransfer::NONE.
TransferNONE == [group |-> None, layer |-> 0, timeout |-> 0, from_active |-> TRUE]

\* Pointer positions (Vec2) a focused window may report: Vec2::ZERO and a
\* point farther from it than the dismissal radius.
CursorPositions == {<<0, 0>>, <<Radius + 1, 0>>}
NoCursor == <<>>

Interactions == {"None", "Hovered", "Pressed"}

----------------------------------------------------------------------------
(* State.                                                                  *)

VARIABLES
    ctx,          \* the TooltipContext resource
    tooltips,     \* the Tooltip component of every target element
    visibility,   \* the Visibility component of every content element
    primary_text, \* the RichText of the primary text element
    hide_msgs,    \* HideTooltip messages written and not yet read
    show_msgs,    \* number of ShowTooltip messages written and not yet read
    pc,           \* the system of the frame chain that runs next
    old,          \* history: what the frame's resolver started from
    frame,        \* history: the inputs and intermediate results of the frame
    hover,        \* history: the clock of the current hover
    lost,         \* history: the clock since an Active target was lost
    layout,       \* the camera viewport and the computed rectangles of the UI
    node,         \* Node.left, Node.top and Transform.translation of every
                  \* content element
    calc,         \* history: the intermediate values of the frame's placement
    input         \* history: what the frame's resolver was given, where a
                  \* specification observes it

vars == <<ctx, tooltips, visibility, primary_text, hide_msgs, show_msgs, pc,
          old, frame, hover, lost, layout, node, calc, input>>

----------------------------------------------------------------------------
(* Pure helpers.                                                           *)

Min(x, y) == IF x < y THEN x ELSE y

\* Vec2::distance_squared.
DistanceSquared(p, q) ==
    (p[1] - q[1]) * (p[1] - q[1]) + (p[2] - q[2]) * (p[2] - q[2])

\* `x > threshold` on f32 where the threshold may be +infinity.
GreaterOrEqual(x, threshold) == threshold # INFINITY /\ x >= threshold

GreaterThan(x, threshold) == threshold # INFINITY /\ x > threshold

\* `on_distance *= on_distance` on f32 (inf * inf = inf).
Squared(d) == IF d = INFINITY THEN INFINITY ELSE d * d

\* `time.delta().as_millis() as u16`: the cast keeps the low 16 bits.
AsU16(millis) == millis % U16Range

\* u16::saturating_sub.
SaturatingSub(x, y) == IF x > y THEN x - y ELSE 0

\* The content element a TooltipContent names: the primary container for
\* Primary, the custom element otherwise (context.rs:86-89, 251-259).
ContentEntity(content) ==
    IF content.kind = "Primary" THEN PrimaryContainer ELSE content.id

\* old_entity: the content element of the snapshot held when the frame starts
\* (context.rs:86-89).
OldEntityPrimaryOnly(c) == PrimaryContainer

OldEntity(c) == ContentEntity(c.tooltip.content)

\* The snapshot taken of an element's Tooltip: a clone with the dismissal
\* distance squared (context.rs:161-162, 181-182).
Snapshot(tooltip) ==
    [tooltip EXCEPT !.dismissal.on_distance = Squared(tooltip.dismissal.on_distance)]

----------------------------------------------------------------------------
(* update_tooltip_context, step by step.                                   *)

\* Reset activation delay on cursor move (context.rs:107-113).
ResetDelayOnMove(c, cursor_pos) ==
    IF /\ c.cursor_pos # cursor_pos
       /\ c.state = "Delayed"
       /\ c.tooltip.activation.reset_delay_on_cursor_move
    THEN [c EXCEPT !.timer = c.tooltip.activation.delay]
    ELSE c

\* Dismiss tooltip if cursor has left the activation radius (context.rs:115-120).
DismissOnDistance(c, cursor_pos) ==
    IF /\ c.state = "Active"
       /\ GreaterThan(DistanceSquared(c.cursor_pos, cursor_pos),
                      c.tooltip.dismissal.on_distance)
    THEN [c EXCEPT !.state = "Dismissed"]
    ELSE c

UpdateCursorPosAlways(c, cursor_pos) == [c EXCEPT !.cursor_pos = cursor_pos]

\* Update cursor position (context.rs:122-130).
UpdateCursorPos(c, cursor_pos) ==
    IF \/ c.state # "Active"
       \/ c.tooltip.placement.target_point = CursorPoint(TRUE)
    THEN [c EXCEPT !.cursor_pos = cursor_pos]
    ELSE c

\* Detect cursor movement (context.rs:93-133).  cursor is NoCursor when no
\* camera renders to a focused window with a cursor position.
PointerTracking(c, cursor) ==
    IF cursor = NoCursor
    THEN c
    ELSE UpdateCursorPos(
             DismissOnDistance(ResetDelayOnMove(c, cursor), cursor), cursor)

\* Tick timer for transfer timeout / activation delay (context.rs:135-141).
TickTimerOnly(c, delta) ==
    IF c.state \in {"Inactive", "Delayed"}
    THEN [c EXCEPT !.timer = SaturatingSub(c.timer, AsU16(delta))]
    ELSE c

TickTimer(c, delta) ==
    IF c.state \in {"Inactive", "Delayed"}
    THEN LET t == SaturatingSub(c.timer, AsU16(delta))
         IN [c EXCEPT !.timer = t,
                      !.state = IF c.state = "Delayed" /\ t = 0
                                THEN "Active" ELSE c.state]
    ELSE c

\* Whether a stack entry is looked at by the scan: interaction_query.get
\* succeeds and the Interaction is not None (context.rs:146, 155).
Qualifies(entity, tts, inter) ==
    entity \in DOMAIN tts /\ inter[entity] # "None"

\* The entities of the stack that qualify, and the topmost of them
\* (ui_stack.uinodes.iter().rev(), context.rs:145).
QualifyingIndices(tts, inter) ==
    {i \in 1..Len(UiStack) : Qualifies(UiStack[i], tts, inter)}

NoEntity == "none"

FirstQualifying(tts, inter) ==
    LET idx == QualifyingIndices(tts, inter)
    IN IF idx = {} THEN NoEntity
       ELSE UiStack[CHOOSE i \in idx : \A j \in idx : j <= i]

\* The match arm `Interaction::Pressed if tooltip.dismissal.on_click`
\* (context.rs:148).
IsClickDismiss(tooltip, inter) ==
    inter = "Pressed" /\ tooltip.dismissal.on_click

\* context.rs:149-151.
ClickDismissKeepTransfer(c, entity, tooltip) ==
    [c EXCEPT !.target = entity, !.state = "Dismissed"]

ClickDismiss(c, entity, tooltip) ==
    [c EXCEPT !.target = entity,
              !.state = "Dismissed",
              !.tooltip.transfer = tooltip.transfer]

\* Still hovering the same target entity (context.rs:160).
IsSameTargetUndismissed(c, entity) ==
    c.target = entity /\ c.state \in {"Delayed", "Active"}

IsSameTarget(c, entity) ==
    c.target = entity /\ c.state # "Inactive"

\* Refresh the snapshot and leave state, target and timer (context.rs:161-162).
StillHoveringRestart(c, tooltip) ==
    [c EXCEPT !.tooltip = Snapshot(tooltip), !.timer = tooltip.activation.delay]

StillHoveringStale(c, tooltip) == c

StillHoveringSquaredAgain(c, tooltip) ==
    [c EXCEPT !.tooltip =
                  Snapshot([tooltip EXCEPT !.dismissal = c.tooltip.dismissal])]

StillHovering(c, tooltip) ==
    [c EXCEPT !.tooltip = Snapshot(tooltip)]

\* `ctx.tooltip.transfer.layer >= tooltip.transfer.layer` (context.rs:171).
LayerAllowsUpward(old_layer, new_layer) == old_layer <= new_layer

LayerAllows(old_layer, new_layer) == old_layer >= new_layer

\* matches!((old, new), (Some(x), Some(y)) if x == y) (context.rs:172).
GroupMatchesEqual(old_group, new_group) == old_group = new_group

GroupMatches(old_group, new_group) ==
    old_group # None /\ new_group # None /\ old_group = new_group

\* The delay skip by transfer (context.rs:169-173).
TransferAppliesNoTimer(c, entity, tooltip) ==
    /\ c.state = "Inactive"
    /\ LayerAllows(c.tooltip.transfer.layer, tooltip.transfer.layer)
    /\ \/ GroupMatches(c.tooltip.transfer.group, tooltip.transfer.group)
       \/ c.target = entity

TransferApplies(c, entity, tooltip) ==
    /\ c.state = "Inactive"
    /\ c.timer > 0
    /\ LayerAllows(c.tooltip.transfer.layer, tooltip.transfer.layer)
    /\ \/ GroupMatches(c.tooltip.transfer.group, tooltip.transfer.group)
       \/ c.target = entity

\* Switch to the new target entity (context.rs:167-182).
SwitchTarget(c, entity, tooltip) ==
    [c EXCEPT !.state = IF \/ tooltip.activation.delay = 0
                           \/ TransferApplies(c, entity, tooltip)
                        THEN "Active" ELSE "Delayed",
              !.target = entity,
              !.timer = tooltip.activation.delay,
              !.tooltip = Snapshot(tooltip)]

\* There is no longer a target entity (context.rs:187-196).
LoseTargetActiveOnly(c) ==
    IF c.state # "Inactive"
    THEN [c EXCEPT !.timer = IF c.state = "Active"
                             THEN c.tooltip.transfer.timeout ELSE 0,
                   !.state = "Inactive"]
    ELSE c

LoseTarget(c) ==
    IF c.state # "Inactive"
    THEN [c EXCEPT !.timer = IF \/ c.state = "Active"
                                \/ ~c.tooltip.transfer.from_active
                             THEN c.tooltip.transfer.timeout ELSE 0,
                   !.state = "Inactive"]
    ELSE c

\* Which branch the scan takes for the frame's first qualifying entry.
ScanBranch(c, tts, inter) ==
    LET entity == FirstQualifying(tts, inter)
    IN IF entity = NoEntity THEN "none"
       ELSE IF IsClickDismiss(tts[entity], inter[entity]) THEN "click"
       ELSE IF IsSameTarget(c, entity) THEN "same"
       ELSE "switch"

\* `ui_stack.uinodes.iter().rev()`: the stack is walked from its last
\* (topmost) entry down (context.rs:145).
ScanOrderForward(stack) == stack

ScanOrder(stack) == [i \in 1..Len(stack) |-> stack[Len(stack) + 1 - i]]

\* The loop over the stack (context.rs:145-185): an entry without a spec or
\* with Interaction::None is passed over, the first other entry is handled by
\* one of the three arms and ends the loop.
RECURSIVE ScanLoop(_, _, _, _)
ScanLoop(c, tts, inter, order) ==
    IF order = <<>> THEN [ctx |-> c, found_target |-> FALSE]
    ELSE LET entity == Head(order)
         IN IF ~Qualifies(entity, tts, inter)
            THEN ScanLoop(c, tts, inter, Tail(order))
            ELSE [ctx |-> IF IsClickDismiss(tts[entity], inter[entity])
                          THEN ClickDismiss(c, entity, tts[entity])
                          ELSE IF IsSameTarget(c, entity)
                          THEN StillHovering(c, tts[entity])
                          ELSE SwitchTarget(c, entity, tts[entity]),
                  found_target |-> TRUE]

\* The target scan and the no-target step (context.rs:143-196).
TargetScanNoLoss(c, tts, inter) == ScanLoop(c, tts, inter, ScanOrder(UiStack)).ctx

TargetScan(c, tts, inter) ==
    LET r == ScanLoop(c, tts, inter, ScanOrder(UiStack))
    IN IF r.found_target THEN r.ctx ELSE LoseTarget(r.ctx)

\* The condition under which notifications are written (context.rs:200).
ShouldNotifyOnEdge(old_active, new_active, old_target, new_target, found_target) ==
    old_active # new_active \/ old_target # new_target

ShouldNotifyOnTargetChange(old_active, new_active, old_target, new_target, found_target) ==
    old_target # new_target

ShouldNotify(old_active, new_active, old_target, new_target, found_target) ==
    old_active # new_active \/ old_target # new_target \/ found_target

----------------------------------------------------------------------------
(* History, kept for the properties below.  old and frame describe the     *)
(* frame that is running and are forgotten when its last system has run;   *)
(* hover and lost are clocks in real milliseconds that span frames.        *)

\* Caps of the clocks (they saturate one above what they are compared to:
\* the hover clock above the delay it started with).
LostCap == MaxTimeout + 1

HoverOff == [on |-> FALSE, d |-> 0, ms |-> 0, still |-> FALSE]

\* The hover clock: milliseconds since the frame F0 on which the current
\* target was switched to and entered Delayed with delay d; it runs while
\* the target stays the first qualifying entry and had not yet activated.
HoverNext(h, c0, c3, branch, delta, moved) ==
    IF branch = "switch" /\ c3.state = "Delayed"
    THEN [on |-> TRUE, d |-> c3.timer, ms |-> 0, still |-> TRUE]
    ELSE IF branch = "same" /\ h.on /\ c0.state = "Delayed"
    THEN [h EXCEPT !.ms = Min(h.ms + delta, h.d + 1),
                   !.still = h.still /\ ~moved]
    ELSE HoverOff

LostOff == [phase |-> "off", from |-> PLACEHOLDER, rule |-> TransferNONE, ms |-> 0]

\* The leave clock: milliseconds since the frame on which an Active target
\* was lost ("lost"), until the frame on which the next target is switched
\* to ("arrived").  A target that replaces an Active one within a single
\* frame arrives at 0 ms ("direct").
LostNext(l, c0, c2, branch, delta) ==
    IF c0.state = "Active" /\ c2.state = "Active" /\ branch \in {"none", "switch"}
    THEN [phase |-> IF branch = "none" THEN "lost" ELSE "direct",
          from |-> c0.target, rule |-> c0.tooltip.transfer, ms |-> 0]
    ELSE IF l.phase = "lost" /\ branch \in {"none", "switch"}
    THEN [l EXCEPT !.phase = IF branch = "none" THEN "lost" ELSE "arrived",
                   !.ms = Min(l.ms + delta, LostCap)]
    ELSE LostOff

\* What a frame's resolver started from.
OldOf(c, text) ==
    [state |-> c.state, target |-> c.target,
     entity |-> OldEntity(c),
     activation |-> c.tooltip.activation,
     snapshot |-> c.tooltip,
     text |-> text]

\* The context fields the target scan may touch, as they are before it.
MidOf(c) ==
    [state |-> c.state, target |-> c.target, timer |-> c.timer,
     tooltip |-> c.tooltip]

\* The squared distance from the stored point to the live pointer of the
\* frame, as a set: empty when the frame has no pointer position.
NoDistance == {}
DistanceOf(c, cursor) ==
    IF cursor = NoCursor THEN NoDistance ELSE {DistanceSquared(c.cursor_pos, cursor)}

\* The Interaction of the frame's first qualifying entry.
StatusOf(tts, inter) ==
    LET idx == {i \in 1..Len(UiStack) :
                   UiStack[i] \in DOMAIN tts /\ inter[UiStack[i]] # "None"}
    IN IF idx = {} THEN "None"
       ELSE inter[UiStack[CHOOSE i \in idx : \A j \in idx : j <= i]]

----------------------------------------------------------------------------
(* The systems of the frame.                                               *)

\* TooltipContext::default (context.rs:60-70).
TooltipContextDefault ==
    [state |-> "Inactive",
     target |-> PLACEHOLDER,
     timer |-> 0,
     cursor_pos |-> <<0, 0>>,
     tooltip |-> MkTooltip(Custom(PLACEHOLDER), CursorPoint(FALSE),
                           [delay |-> 0, reset_delay_on_cursor_move |-> FALSE],
                           [on_distance |-> INFINITY, on_click |-> FALSE],
                           TransferNONE)]

OldInit == OldOf(TooltipContextDefault, EmptyText)
FrameInit ==
    [moved |-> FALSE, mid |-> MidOf(TooltipContextDefault), branch |-> "none",
     found |-> NoEntity, status |-> "None", dist2 |-> NoDistance]

\* What the resolver of an observed frame was given (the frame's elapsed
\* whole milliseconds and pointer position), the context it started from and
\* the context after pointer tracking, before the timer tick.
InputNone ==
    [seen |-> FALSE, delta |-> 0, cursor |-> NoCursor, cursor_pos |-> <<0, 0>>,
     timer |-> 0, pre |-> [state |-> "Inactive", timer |-> 0]]

InputOf(c, delta, cursor) ==
    [seen |-> TRUE, delta |-> delta, cursor |-> cursor, cursor_pos |-> c.cursor_pos,
     timer |-> c.timer,
     pre |-> [state |-> PointerTracking(c, cursor).state,
              timer |-> PointerTracking(c, cursor).timer]]

\* Frame deltas in whole milliseconds: short frames, and one frame as long
\* as the u16 range.
Deltas == (0..MaxDelta) \cup {U16Range}

\* update_tooltip_context (context.rs:72-208).  c1, c2 and c3 are the
\* context after pointer tracking, after the timer tick and after the scan.
UpdateTooltipContext(delta, cursor, inter) ==
    /\ pc = "update"
    /\ \E c1 \in {PointerTracking(ctx, cursor)} :
       \E c2 \in {TickTimer(c1, delta)} :
       \E branch \in {ScanBranch(c2, tooltips, inter)} :
       \E c3 \in {TargetScan(c2, tooltips, inter)} :
       \E moved \in {cursor # NoCursor /\ cursor # ctx.cursor_pos} :
       \E notify \in {ShouldNotify(ctx.state = "Active", c3.state = "Active",
                                   ctx.target, c3.target, branch # "none")} :
          /\ ctx' = c3
          /\ hide_msgs' = IF notify /\ ctx.state = "Active"
                          THEN Append(hide_msgs, OldEntity(ctx))
                          ELSE hide_msgs
          /\ show_msgs' = IF notify /\ c3.state = "Active"
                          THEN show_msgs + 1 ELSE show_msgs
          /\ old' = OldOf(ctx, primary_text)
          /\ frame' = [moved |-> moved, mid |-> MidOf(c2), branch |-> branch,
                       found |-> FirstQualifying(tooltips, inter),
                       status |-> StatusOf(tooltips, inter),
                       dist2 |-> DistanceOf(ctx, cursor)]
          /\ hover' = HoverNext(hover, ctx, c3, branch, delta, moved)
          /\ lost' = LostNext(lost, ctx, c2, branch, delta)
    /\ pc' = "hide"
    /\ UNCHANGED <<tooltips, visibility, primary_text, layout, node, calc>>

\* An element that was despawned or has no Visibility component:
\* visibility_query.get_mut fails for it (context.rs:236, 261).
Missing == "Missing"

\* hide_tooltip, run if a HideTooltip message was written (context.rs:32, 231-238).
HideTooltip ==
    /\ pc = "hide"
    /\ visibility' = [e \in ContentEntities |->
                        IF /\ \E i \in 1..Len(hide_msgs) : hide_msgs[i] = e
                           /\ visibility[e] # Missing
                        THEN "Hidden" ELSE visibility[e]]
    /\ hide_msgs' = <<>>
    /\ pc' = "show"
    /\ UNCHANGED <<ctx, tooltips, primary_text, show_msgs, old, frame, hover, lost,
                   layout, node, calc, input>>

\* The body of show_tooltip (context.rs:245-262): the snapshot after
\* core::mem::take, the primary text, and the visibilities.
ShowCtxKept(c) == c

ShowCtx(c) ==
    IF c.tooltip.content.kind = "Primary"
    THEN [c EXCEPT !.tooltip.content.text = EmptyText]
    ELSE c

ShowText(c, text) ==
    IF c.tooltip.content.kind = "Primary" THEN c.tooltip.content.text ELSE text

ShowVisibilityKept(c, vis) == vis

ShowVisibility(c, vis) ==
    LET entity == ContentEntity(c.tooltip.content)
    IN [e \in ContentEntities |->
           IF e = entity /\ vis[e] # Missing THEN "Visible" ELSE vis[e]]

\* show_tooltip, run if a ShowTooltip message was written (context.rs:33, 245-262).
ShowTooltip ==
    /\ pc = "show"
    /\ IF show_msgs > 0
       THEN /\ ctx' = ShowCtx(ctx)
            /\ primary_text' = ShowText(ctx, primary_text)
            /\ visibility' = ShowVisibility(ctx, visibility)
       ELSE UNCHANGED <<ctx, primary_text, visibility>>
    /\ show_msgs' = 0
    /\ pc' = "place"
    /\ UNCHANGED <<tooltips, hide_msgs, old, frame, hover, lost, layout, node, calc,
                   input>>

\* Vec2 arithmetic.
VAdd(a, b) == <<a[1] + b[1], a[2] + b[2]>>
VSub(a, b) == <<a[1] - b[1], a[2] - b[2]>>

\* `size * anchor.as_vec() * Vec2::new(-1.0, 1.0)` (placement.rs:180-181, 188-189).
AnchorOffset(size, anchor) ==
    <<(size[1] * anchor[1] * (-1)) \div 2, (size[2] * anchor[2]) \div 2>>

\* Rect::half_size.
HalfSize(size) == <<size[1] \div 2, size[2] \div 2>>

\* Calculate target position (placement.rs:176-184).
TargetPosition(c, target_rect) ==
    IF c.tooltip.placement.target_point.kind = "Fixed"
    THEN VAdd(c.cursor_pos,
              VSub(target_rect.center,
                   AnchorOffset(target_rect.size,
                                c.tooltip.placement.target_point.anchor)))
    ELSE c.cursor_pos

\* `val.resolve(1.0, physical_base_value, ..).unwrap_or_default()` for
\* Val::Px, Val::Percent and Val::Auto (placement.rs:196-226).
Resolve(val, physical_base_value) ==
    CASE val.kind = "Px" -> val.v
      [] val.kind = "Percent" -> (physical_base_value * val.v) \div 100
      [] OTHER -> 0

\* What the offsets resolve against: the physical size of the camera's
\* render target (placement.rs:191).
OffsetBaseViewport(l) == l.viewport

OffsetBase(l) == l.target_size

\* The midpoint both bounds collapse to (placement.rs:233, 240).
MidpointLower(lo, hi) == lo

Midpoint(lo, hi) == (lo + hi) \div 2

\* The clamp range of one axis (placement.rs:230-243).
ClampRange(half, size, near, far) ==
    LET lo == half + near
        hi == size - half - far
    IN IF lo > hi
       THEN [lo |-> Midpoint(lo, hi), hi |-> Midpoint(lo, hi)]
       ELSE [lo |-> lo, hi |-> hi]

\* f32::clamp.
Clamp(v, lo, hi) == IF v < lo THEN lo ELSE IF v > hi THEN hi ELSE v

\* f32::trunc, fract, round (half away from zero) and ceil.
Trunc(v) == IF v >= 0 THEN Px(v \div Px(1)) ELSE -Px((-v) \div Px(1))
Fract(v) == v - Trunc(v)
Round(v) ==
    IF v >= 0 THEN Px((v + Px(1) \div 2) \div Px(1))
    ELSE -Px((-v + Px(1) \div 2) \div Px(1))
Ceil(v) == -Px((-v) \div Px(1))

\* round_ties_up (placement.rs:272-278).
RoundTiesAway(value) == Round(value)

round_ties_up(value) ==
    IF Fract(value) # -(Px(1) \div 2) THEN Round(value) ELSE Ceil(value)

\* Apply rounding depending on parity of size (placement.rs:247-256).
RoundAxis(pos, extent) ==
    IF (Round(extent) \div Px(1)) % 2 = 0
    THEN round_ties_up(pos)
    ELSE round_ties_up(pos + Px(1) \div 2) - Px(1) \div 2

\* The camera has no physical viewport rect, or there is no camera
\* (placement.rs:161-167).
NoViewport == <<>>

NoLayout ==
    [camera |-> NoEntity, viewport |-> NoViewport, target_size |-> <<0, 0>>,
     target |-> <<>>, size |-> <<>>]

\* Node and Transform of a content element before it was ever placed.
NodeDefault ==
    [camera |-> NoEntity, left |-> ValAuto, top |-> ValAuto,
     translation |-> <<0, 0>>]

CalcNone ==
    [done |-> FALSE, offset |-> <<0, 0>>, unclamped |-> <<0, 0>>, lo |-> <<0, 0>>, hi |-> <<0, 0>>,
     clamped |-> <<0, 0>>, pos |-> <<0, 0>>, half_size |-> <<0, 0>>]

\* Whether place_tooltip gets past its early returns (placement.rs:152-167):
\* the state is Active, the target has a transform and a computed node, the
\* content element has the components of a node, a camera is resolved and
\* it has a physical viewport rect.
PlacesInAnyState(c, l) ==
    /\ c.target \in DOMAIN l.target
    /\ ContentEntity(c.tooltip.content) \in DOMAIN l.size
    /\ l.camera # NoEntity
    /\ l.viewport # NoViewport

PlacesWithoutCamera(c, l) ==
    /\ c.state = "Active"
    /\ c.target \in DOMAIN l.target
    /\ ContentEntity(c.tooltip.content) \in DOMAIN l.size
    /\ l.viewport # NoViewport

Places(c, l) ==
    /\ c.state = "Active"
    /\ c.target \in DOMAIN l.target
    /\ ContentEntity(c.tooltip.content) \in DOMAIN l.size
    /\ l.camera # NoEntity
    /\ l.viewport # NoViewport

\* The body of place_tooltip past its early returns (placement.rs:173-256).
Place(c, l) ==
    LET placement == c.tooltip.placement
        tooltip_size == l.size[ContentEntity(c.tooltip.content)]
        half_size == HalfSize(tooltip_size)
        offset == <<Resolve(placement.offset_x, OffsetBase(l)[1]),
                    Resolve(placement.offset_y, OffsetBase(l)[2])>>
        unclamped ==
            VAdd(VAdd(TargetPosition(c, l.target[c.target]),
                      AnchorOffset(tooltip_size, placement.anchor_point)),
                 offset)
        x == ClampRange(half_size[1], l.viewport[1],
                        Resolve(placement.clamp_padding.left, l.target_size[1]),
                        Resolve(placement.clamp_padding.right, l.target_size[1]))
        y == ClampRange(half_size[2], l.viewport[2],
                        Resolve(placement.clamp_padding.top, l.target_size[2]),
                        Resolve(placement.clamp_padding.bottom, l.target_size[2]))
        clamped == <<Clamp(unclamped[1], x.lo, x.hi), Clamp(unclamped[2], y.lo, y.hi)>>
    IN [done |-> TRUE, offset |-> offset, unclamped |-> unclamped,
        lo |-> <<x.lo, y.lo>>, hi |-> <<x.hi, y.hi>>, clamped |-> clamped,
        pos |-> <<RoundAxis(clamped[1], tooltip_size[1]),
                  RoundAxis(clamped[2], tooltip_size[2])>>,
        half_size |-> half_size]

\* place_tooltip (placement.rs:142-269) ends the frame: it writes the
\* position of the content element to its Node and its Transform
\* (placement.rs:259-268).
PlaceTooltip ==
    /\ pc = "place"
    /\ IF Places(ctx, layout)
       THEN \E r \in {Place(ctx, layout)} :
               /\ node' = [node EXCEPT ![ContentEntity(ctx.tooltip.content)] =
                              [camera |-> layout.camera,
                               left |-> ValPx(r.pos[1] - r.half_size[1]),
                               top |-> ValPx(r.pos[2] - r.half_size[2]),
                               translation |-> r.pos]]
               /\ calc' = r
       ELSE /\ node' = node
            /\ calc' = CalcNone
    /\ pc' = "update"
    /\ old' = OldInit
    /\ frame' = FrameInit
    /\ lost' = IF lost.phase = "lost" THEN lost ELSE LostOff
    /\ input' = InputNone
    /\ UNCHANGED <<ctx, tooltips, visibility, primary_text, hide_msgs, show_msgs,
                   hover, layout>>

\* The application replaces the Tooltip component of an element between
\* two frames; configs are the assignments of components it moves within.
EditTooltip(entity, tooltip, configs) ==
    /\ pc = "update"
    /\ tooltips[entity] # tooltip
    /\ [tooltips EXCEPT ![entity] = tooltip] \in configs
    /\ tooltips' = [tooltips EXCEPT ![entity] = tooltip]
    /\ UNCHANGED <<ctx, visibility, primary_text, hide_msgs, show_msgs, pc, old,
                   frame, hover, lost, layout, node, calc, input>>

\* The application despawns a content element, or removes its Visibility,
\* between two frames.
RemoveVisibility(entity) ==
    /\ pc = "update"
    /\ visibility[entity] # Missing
    /\ visibility' = [visibility EXCEPT ![entity] = Missing]
    /\ UNCHANGED <<ctx, tooltips, primary_text, hide_msgs, show_msgs, pc, old,
                   frame, hover, lost, layout, node, calc, input>>

\* The state after the plugin is built (context.rs:24-27, 60-70), with the
\* Tooltip components of the target elements being one of configs.
InitWith(configs) ==
    /\ ctx = TooltipContextDefault
    /\ tooltips \in configs
    /\ visibility = [e \in ContentEntities |-> "Hidden"]
    /\ primary_text = EmptyText
    /\ hide_msgs = <<>>
    /\ show_msgs = 0
    /\ pc = "update"
    /\ old = OldInit
    /\ frame = FrameInit
    /\ hover = HoverOff
    /\ lost = LostOff
    /\ layout = NoLayout
    /\ node = [e \in ContentEntities |-> NodeDefault]
    /\ calc = CalcNone
    /\ input = InputNone

\* One step of the program: a system of the frame chain, with the frame
\* delta drawn from deltas and the pointer from cursors, or the application
\* editing within configs.
NextOn(configs, deltas, cursors) ==
    \/ \E delta \in deltas, cursor \in cursors,
          inter \in [Targets -> Interactions] :
          UpdateTooltipContext(delta, cursor, inter) /\ UNCHANGED input
    \/ HideTooltip
    \/ ShowTooltip
    \/ PlaceTooltip
    \/ \E entity \in Targets :
          \E tooltip \in {cfg[entity] : cfg \in configs} :
             EditTooltip(entity, tooltip, configs)

\* The same, with the inputs of every frame observed.
NextObserved(configs, deltas, cursors) ==
    \/ \E delta \in deltas, cursor \in cursors,
          inter \in [Targets -> Interactions] :
          UpdateTooltipContext(delta, cursor, inter)
              /\ input' = InputOf(ctx, delta, cursor)
    \/ HideTooltip
    \/ ShowTooltip
    \/ PlaceTooltip
    \/ \E entity \in Targets :
          \E tooltip \in {cfg[entity] : cfg \in configs} :
             EditTooltip(entity, tooltip, configs)

NextWith(configs) == NextOn(configs, Deltas, CursorPositions \cup {NoCursor})

----------------------------------------------------------------------------
(* Configurations and their specifications.                                *)

NoDismissal == [on_distance |-> INFINITY, on_click |-> FALSE]
NoReset(delay) == [delay |-> delay, reset_delay_on_cursor_move |-> FALSE]

\* Activation rules vary (delay, reset on move); nothing else does.
DelayFamily ==
    {MkTooltip(Primary("t1"), CursorPoint(FALSE), a, NoDismissal, TransferNONE) :
        a \in Activations}

\* Transfer rules of one group vary (layer, timeout); the delay is nonzero.
TransferFamily ==
    {MkTooltip(Primary("t1"), CursorPoint(FALSE), NoReset(MaxDelay), NoDismissal, t) :
        t \in [group : {Some(0)}, layer : Layers, timeout : Timeouts,
               from_active : {TRUE}]}

\* Contents vary; activation is immediate, a click dismisses.
ContentFamily ==
    {MkTooltip(c, CursorPoint(FALSE), NoReset(0),
               [on_distance |-> Radius, on_click |-> TRUE], TransferNONE) :
        c \in Contents}

\* Dismissal rules vary; the delay is nonzero.
DismissFamily ==
    {MkTooltip(Primary("t1"), CursorPoint(FALSE), NoReset(MaxDelay), d, TransferNONE) :
        d \in Dismissals}

DelayConfigs == [Targets -> DelayFamily]
TransferConfigs == [Targets -> TransferFamily]
ContentConfigs == [Targets -> ContentFamily]
DismissConfigs == [Targets -> DismissFamily]

Init == InitWith(DelayConfigs)
Next == NextWith(DelayConfigs)
Spec == Init /\ [][Next]_vars

InitTransfer == InitWith(TransferConfigs)
NextTransfer == NextWith(TransferConfigs)
SpecTransfer == InitTransfer /\ [][NextTransfer]_vars

InitContent == InitWith(ContentConfigs)
NextContent == NextWith(ContentConfigs)
SpecContent == InitContent /\ [][NextContent]_vars

InitDismiss == InitWith(DismissConfigs)
NextDismiss == NextWith(DismissConfigs)
SpecDismiss == InitDismiss /\ [][NextDismiss]_vars

\* Dismissal distance and cursor following vary; activation is immediate.
\* The pointer is at Vec2::ZERO, at the dismissal radius from it, or beyond.
DistanceFamily ==
    {MkTooltip(Primary("t1"), CursorPoint(follow), NoReset(0),
               [on_distance |-> d, on_click |-> FALSE], TransferNONE) :
        follow \in BOOLEAN, d \in {INFINITY, Radius}}

DistanceConfigs == [Targets -> DistanceFamily]
DistanceCursors == {<<0, 0>>, <<Radius, 0>>, <<Radius + 1, 0>>, NoCursor}

\* Click dismissal varies, and content and transfer layer vary together; the
\* delay is nonzero.
ClickFamily ==
    {MkTooltip(v[1], CursorPoint(FALSE), NoReset(MaxDelay),
               [on_distance |-> INFINITY, on_click |-> on_click],
               [group |-> Some(0), layer |-> v[2], timeout |-> 0,
                from_active |-> TRUE]) :
        v \in {<<Primary("t1"), 0>>, <<Custom("c1"), 1>>}, on_click \in BOOLEAN}

ClickConfigs == [Targets -> ClickFamily]

InitClick == InitWith(ClickConfigs)
NextClick == NextOn(ClickConfigs, {0, MaxDelta}, CursorPositions \cup {NoCursor})
SpecClick == InitClick /\ [][NextClick]_vars

\* Transfer groups vary (None, Some(0), Some(1)); delay and timeout are
\* nonzero.
GroupFamily ==
    {MkTooltip(Primary("t1"), CursorPoint(FALSE), NoReset(MaxDelay), NoDismissal,
               [group |-> g, layer |-> 0, timeout |-> MaxTimeout,
                from_active |-> TRUE]) :
        g \in Groups}

GroupConfigs == [Targets -> GroupFamily]

InitGroup == InitWith(GroupConfigs)
NextGroup == NextWith(GroupConfigs)
SpecGroup == InitGroup /\ [][NextGroup]_vars

\* Inputs of place_tooltip: viewports, tooltip sizes (even, odd and larger
\* than the viewport), paddings, offsets, anchors, target points, stored
\* pointer positions and target rectangles.
PlaceViewports == {<<Px(ViewportPx), Px(ViewportPx)>>}
PlaceExtents == {Px(2), Px(3), Px(ViewportPx) + Quarter(2)}
PlaceSizes == PlaceExtents \X PlaceExtents
PlacePaddings ==
    {UiRectZERO,
     UiRect(ValPx(Quarter(1)), ValZERO, ValPx(Quarter(1)), ValZERO),
     UiRect(ValPx(Px(2)), ValZERO, ValZERO, ValPx(Px(1))),
     UiRect(ValAuto, ValAuto, ValAuto, ValAuto)}
PlaceOffsets ==
    {<<ValZERO, ValZERO>>, <<ValPx(Px(16)), ValPx(Px(16))>>,
     <<ValAuto, ValPx(-Quarter(3))>>}
PlaceAnchors == {TOP_LEFT, CENTER, BOTTOM_RIGHT}
PlaceTargetPoints ==
    {Fixed(TOP_LEFT), Fixed(CENTER), CursorPoint(FALSE), CursorPoint(TRUE)}
PlaceCursors ==
    {<<0, 0>>, <<Px(3), Quarter(9)>>, <<Px(ViewportPx) + Px(2), Px(1)>>}
PlaceTargetRects ==
    {[center |-> <<Px(2), Px(2)>>, size |-> <<Px(2), Px(2)>>],
     [center |-> <<Quarter(18), Px(3)>>, size |-> <<Px(3), Px(2)>>]}
PlaceContents == {Primary("t1"), Custom("c1")}

PlacePlacements ==
    {TooltipPlacement(a, tp, o[1], o[2], pad) :
        a \in PlaceAnchors, tp \in PlaceTargetPoints, o \in PlaceOffsets,
        pad \in PlacePaddings}

\* The context after target entered Active with the given tooltip at the
\* given pointer position and show_tooltip has run (context.rs:167-182,
\* 245-262).
ShownContext(target, tooltip, cursor_pos) ==
    [state |-> "Active", target |-> target, timer |-> tooltip.activation.delay,
     cursor_pos |-> cursor_pos, tooltip |-> Snapshot(tooltip)]

\* place_tooltip as a function of its inputs: a frame is about to place a
\* tooltip that is shown.
InitPlace ==
    \E content \in PlaceContents, placement \in PlacePlacements,
       cursor_pos \in PlaceCursors, viewport \in PlaceViewports,
       size \in PlaceSizes, rect \in PlaceTargetRects :
       \E c \in {ShownContext("a",
                      WithPlacement(MkTooltip(content, placement.target_point,
                                              NoReset(0), NoDismissal,
                                              TransferNONE), placement),
                      cursor_pos)} :
          /\ ctx = ShowCtx(c)
          /\ tooltips = [t \in Targets |-> WithPlacement(
                             MkTooltip(content, placement.target_point,
                                       NoReset(0), NoDismissal, TransferNONE),
                             placement)]
          /\ visibility = ShowVisibility(c, [e \in ContentEntities |-> "Hidden"])
          /\ primary_text = ShowText(c, EmptyText)
          /\ hide_msgs = <<>>
          /\ show_msgs = 0
          /\ pc = "place"
          /\ old = OldInit
          /\ frame = FrameInit
          /\ hover = HoverOff
          /\ lost = LostOff
          /\ layout = [camera |-> UiCamera, viewport |-> viewport,
                       target_size |-> viewport,
                       target |-> [t \in Targets |-> rect],
                       size |-> [e \in ContentEntities |-> size]]
          /\ node = [e \in ContentEntities |-> NodeDefault]
          /\ calc = CalcNone
    /\ input = InputNone
NextPlace == PlaceTooltip
SpecPlace == InitPlace /\ [][NextPlace]_vars

\* TooltipActivation::SHORT_DELAY.
ActivationSHORT_DELAY == [delay |-> 200, reset_delay_on_cursor_move |-> FALSE]

\* The scenario: elements with a delay of 200 ms, no dismissal by distance
\* and CURSOR placement, in a 400x300 viewport, the target rectangles being
\* (100,100)-(140,140); frames of 50 ms; the pointer at (120,120) or absent.
ScenarioFamily ==
    {WithPlacement(MkTooltip(Primary(t), CursorPoint(FALSE), ActivationSHORT_DELAY,
                             NoDismissal, TransferNONE), PlacementCURSOR) :
        t \in Texts}
ScenarioConfigs == [Targets -> ScenarioFamily]
ScenarioDeltas == {50}
ScenarioCursor == <<Px(120), Px(120)>>
ScenarioLayouts ==
    {[camera |-> UiCamera, viewport |-> <<Px(400), Px(300)>>,
      target_size |-> <<Px(400), Px(300)>>,
      target |-> [t \in Targets |->
                    [center |-> <<Px(120), Px(120)>>, size |-> <<Px(40), Px(40)>>]],
      size |-> [e \in ContentEntities |-> size]] :
        size \in {<<Px(60), Px(20)>>, <<Px(33), Px(16)>>}}

InitScenario ==
    /\ ctx = TooltipContextDefault
    /\ tooltips \in ScenarioConfigs
    /\ visibility = [e \in ContentEntities |-> "Hidden"]
    /\ primary_text = EmptyText
    /\ hide_msgs = <<>>
    /\ show_msgs = 0
    /\ pc = "update"
    /\ old = OldInit
    /\ frame = FrameInit
    /\ hover = HoverOff
    /\ lost = LostOff
    /\ layout \in ScenarioLayouts
    /\ node = [e \in ContentEntities |-> NodeDefault]
    /\ calc = CalcNone
    /\ input = InputNone
NextScenario == NextOn(ScenarioConfigs, ScenarioDeltas, {ScenarioCursor, NoCursor})
SpecScenario == InitScenario /\ [][NextScenario]_vars

\* The target point follows the pointer or not; there is a dismissal radius,
\* and delay and transfer timeout are nonzero; the inputs of the frames are
\* observed.
TrackingFamily ==
    {MkTooltip(Primary("t1"), CursorPoint(follow), NoReset(MaxDelay),
               [on_distance |-> Radius, on_click |-> FALSE],
               [group |-> None, layer |-> 0, timeout |-> MaxTimeout,
                from_active |-> TRUE]) :
        follow \in BOOLEAN}
TrackingConfigs == [Targets -> TrackingFamily]
InitTracking == InitWith(TrackingConfigs)
NextTracking == NextObserved(TrackingConfigs, Deltas, DistanceCursors)
SpecTracking == InitTracking /\ [][NextTracking]_vars

\* Rules for the switch to a new target and for its loss: an immediate
\* tooltip, two of one group on layers 0 and 1 (the upper one opening its
\* window also when it was not Active), and one without a group.
SwitchFamily ==
    {MkTooltip(Primary("t1"), CursorPoint(FALSE), NoReset(v[1]),
               [on_distance |-> Radius, on_click |-> FALSE],
               [group |-> v[2], layer |-> v[3], timeout |-> MaxTimeout,
                from_active |-> v[4]]) :
        v \in {<<0, None, 0, TRUE>>, <<MaxDelay, Some(0), 0, TRUE>>,
               <<MaxDelay, Some(0), 1, FALSE>>, <<MaxDelay, None, 1, TRUE>>}}
SwitchConfigs == [Targets -> SwitchFamily]
InitSwitch == InitWith(SwitchConfigs)
NextSwitch == NextOn(SwitchConfigs, {0, MaxDelta}, CursorPositions \cup {NoCursor})
SpecSwitch == InitSwitch /\ [][NextSwitch]_vars

\* Inputs of place_tooltip for its lookups and its offsets: a layout whose
\* camera viewport is the whole render target or a part of it, the same with
\* one lookup failing, offsets in pixels, percent and auto, and a content
\* element that was never placed or was placed before.
LookupViewport == <<Px(100), Px(50)>>
LookupLayoutsOk ==
    {[camera |-> UiCamera, viewport |-> LookupViewport, target_size |-> ts,
      target |-> [t \in Targets |->
                    [center |-> <<Px(20), Px(20)>>, size |-> <<Px(10), Px(10)>>]],
      size |-> [e \in ContentEntities |-> <<Px(10), Px(4)>>]] :
        ts \in {LookupViewport, <<Px(200), Px(100)>>}}
LookupLayouts ==
    LookupLayoutsOk
    \cup {[l EXCEPT !.target = <<>>] : l \in LookupLayoutsOk}
    \cup {[l EXCEPT !.size = <<>>] : l \in LookupLayoutsOk}
    \cup {[l EXCEPT !.camera = NoEntity] : l \in LookupLayoutsOk}
    \cup {[l EXCEPT !.viewport = NoViewport] : l \in LookupLayoutsOk}
LookupOffsets == {ValPx(Px(16)), ValPercent(50), ValPercent(25), ValAuto}
LookupNodes ==
    {NodeDefault,
     [camera |-> UiCamera, left |-> ValPx(Px(1)), top |-> ValPx(Px(2)),
      translation |-> <<Px(6), Px(4)>>]}

InitLookup ==
    \E content \in PlaceContents, offset_x \in LookupOffsets,
       offset_y \in LookupOffsets, cursor_pos \in {<<0, 0>>, <<Px(3), Px(2)>>},
       l \in LookupLayouts, n \in LookupNodes :
       \E tooltip \in {WithPlacement(
                           MkTooltip(content, CursorPoint(FALSE), NoReset(0),
                                     NoDismissal, TransferNONE),
                           TooltipPlacement(TOP_LEFT, CursorPoint(FALSE),
                                            offset_x, offset_y, UiRectZERO))} :
       \E c \in {ShownContext("a", tooltip, cursor_pos)} :
          /\ ctx = ShowCtx(c)
          /\ tooltips = [t \in Targets |-> tooltip]
          /\ visibility = ShowVisibility(c, [e \in ContentEntities |-> "Hidden"])
          /\ primary_text = ShowText(c, EmptyText)
          /\ hide_msgs = <<>>
          /\ show_msgs = 0
          /\ pc = "place"
          /\ old = OldInit
          /\ frame = FrameInit
          /\ hover = HoverOff
          /\ lost = LostOff
          /\ layout = l
          /\ node = [e \in ContentEntities |-> n]
          /\ calc = CalcNone
          /\ input = InputNone
NextLookup == PlaceTooltip
SpecLookup == InitLookup /\ [][NextLookup]_vars

\* Immediate tooltips with Primary and Custom content, whose content
\* elements the application may remove.
MissingFamily ==
    {MkTooltip(c, CursorPoint(FALSE), NoReset(0), NoDismissal, TransferNONE) :
        c \in {Primary("t1"), Custom("c1")}}
MissingConfigs == [Targets -> MissingFamily]
InitMissing == InitWith(MissingConfigs)
NextMissing ==
    \/ NextOn(MissingConfigs, {0}, {NoCursor})
    \/ \E entity \in {PrimaryContainer, "c1"} : RemoveVisibility(entity)
SpecMissing == InitMissing /\ [][NextMissing]_vars

\* Inputs of place_tooltip for its rounding: tooltip dimensions that are
\* even, odd and not whole, an anchor at the center of the tooltip on the
\* stored pointer position, which lies on every eighth of a pixel between two
\* pixels, offsets that leave it there or move it left of and above the
\* viewport, and a negative near padding that lets it stay there.
RoundExtents == {Px(2), Px(3), Px(2) + Quarter(2)}
RoundCursors == {<<x, y>> : x \in 0..Px(1), y \in {0, Quarter(2), Px(1)}}
RoundOffsets == {ValZERO, ValPx(-Px(2))}
RoundPadding == UiRect(ValPx(-Px(4)), ValZERO, ValPx(-Px(4)), ValZERO)

InitRound ==
    \E cursor_pos \in RoundCursors, offset_x \in RoundOffsets,
       offset_y \in RoundOffsets, size \in RoundExtents \X RoundExtents :
       \E tooltip \in {WithPlacement(
                           MkTooltip(Primary("t1"), CursorPoint(FALSE), NoReset(0),
                                     NoDismissal, TransferNONE),
                           TooltipPlacement(CENTER, CursorPoint(FALSE),
                                            offset_x, offset_y, RoundPadding))} :
       \E c \in {ShownContext("a", tooltip, cursor_pos)} :
          /\ ctx = ShowCtx(c)
          /\ tooltips = [t \in Targets |-> tooltip]
          /\ visibility = ShowVisibility(c, [e \in ContentEntities |-> "Hidden"])
          /\ primary_text = ShowText(c, EmptyText)
          /\ hide_msgs = <<>>
          /\ show_msgs = 0
          /\ pc = "place"
          /\ old = OldInit
          /\ frame = FrameInit
          /\ hover = HoverOff
          /\ lost = LostOff
          /\ layout = [camera |-> UiCamera,
                       viewport |-> <<Px(ViewportPx), Px(ViewportPx)>>,
                       target_size |-> <<Px(ViewportPx), Px(ViewportPx)>>,
                       target |-> [t \in Targets |->
                                     [center |-> <<Px(2), Px(2)>>,
                                      size |-> <<Px(2), Px(2)>>]],
                       size |-> [e \in ContentEntities |-> size]]
          /\ node = [e \in ContentEntities |-> NodeDefault]
          /\ calc = CalcNone
          /\ input = InputNone
NextRound == PlaceTooltip
SpecRound == InitRound /\ [][NextRound]_vars

\* An element stays hovered: delays of zero, one and MaxDelay milliseconds
\* with and without reset on move, Primary and Custom content; the topmost
\* target is Hovered on every frame, the pointer is where the context
\* starts or absent, every frame lasts at least a millisecond, the
\* application edits nothing, and frames keep coming.
LiveFamily ==
    {MkTooltip(c, CursorPoint(FALSE), a,
               [on_distance |-> Radius, on_click |-> TRUE], TransferNONE) :
        c \in {Primary("t1"), Custom("c1")},
        a \in [delay : 0..MaxDelay, reset_delay_on_cursor_move : BOOLEAN]}
LiveConfigs == [Targets -> LiveFamily]
LiveDeltas == (1..MaxDelta) \cup {U16Range}
LiveInteractions == {inter \in [Targets -> Interactions] : inter["b"] = "Hovered"}
InitLive == InitWith(LiveConfigs)
NextLive ==
    \/ \E delta \in LiveDeltas, cursor \in {<<0, 0>>, NoCursor},
          inter \in LiveInteractions :
          UpdateTooltipContext(delta, cursor, inter) /\ UNCHANGED input
    \/ HideTooltip
    \/ ShowTooltip
    \/ PlaceTooltip
SpecLive == InitLive /\ [][NextLive]_vars /\ WF_vars(NextLive)

InitDistance == InitWith(DistanceConfigs)
NextDistance == NextOn(DistanceConfigs, {0, MaxDelta}, DistanceCursors)
SpecDistance == InitDistance /\ [][NextDistance]_vars

----------------------------------------------------------------------------
(* Properties.                                                             *)

\* The frame's resolver has run and the frame's history is in old and frame.
InFrame == pc # "update"

\* A first qualifying entry N was switched to, coming from target lost.from
\* whose tooltip had been Active: on an earlier frame ("arrived", lost.ms
\* milliseconds after the frame that lost it) or within this frame ("direct").
Arrival == lost.phase \in {"arrived", "direct"} /\ ctx.target # lost.from

SameGroup == GroupMatches(lost.rule.group, ctx.tooltip.transfer.group)

\* C1 (Spec): hovering an element with delay D > 0 and no reset on move,
\* first switched to on frame F0, with the pointer stationary: the state is
\* Delayed after every frame whose cumulative elapsed milliseconds since F0
\* are below D, and Active after the first frame on which they reach D.
C1_DelayCorrectness ==
    (hover.on /\ hover.still /\ ~ctx.tooltip.activation.reset_delay_on_cursor_move)
        => ctx.state = (IF hover.ms < hover.d THEN "Delayed" ELSE "Active")

\* C2 (SpecTransfer): from an Active tooltip A (layer 0, group G, timeout
\* T > 0, from_active), a different element B of layer 0 and group G with its
\* own delay > 0 that becomes the first qualifying entry less than T ms after
\* A was left is Active at the end of the frame that finds it, also when
\* that frame directly follows the last frame that found A.
C2_TransferSkip ==
    (/\ Arrival
     /\ lost.rule.layer = 0 /\ lost.rule.timeout > 0 /\ lost.rule.from_active
     /\ lost.ms < lost.rule.timeout
     /\ ctx.tooltip.transfer.layer = 0 /\ SameGroup
     /\ ctx.tooltip.activation.delay > 0)
        => ctx.state = "Active"

\* C3 (SpecTransfer): when B (same group and layer as A, own delay D_B > 0)
\* is first found T or more ms after the Active tooltip A was lost, B enters
\* Delayed with timer = D_B, and is not Active before D_B ms of hover passed.
C3_TransferExpiry ==
    /\ (/\ Arrival /\ lost.phase = "arrived"
        /\ lost.rule.from_active
        /\ lost.ms >= lost.rule.timeout
        /\ ctx.tooltip.transfer.layer = lost.rule.layer /\ SameGroup
        /\ ctx.tooltip.activation.delay > 0)
           => (ctx.state = "Delayed" /\ ctx.timer = ctx.tooltip.activation.delay)
    /\ (hover.on /\ hover.ms < hover.d) => ctx.state # "Active"

\* The target was found, inside the window of a transfer timeout T > 0 that
\* the loss of an Active tooltip opened on an earlier frame, by an element of
\* a matching transfer group with its own delay > 0.
InsideWindow ==
    /\ Arrival /\ lost.phase = "arrived"
    /\ lost.rule.timeout > 0
    /\ lost.ms < lost.rule.timeout
    /\ SameGroup
    /\ ctx.tooltip.activation.delay > 0

\* C4 as claimed (SpecTransfer): inside the window, layer 1 -> layer 0 is
\* denied (Delayed, own delay) and layer 0 -> layer 1 is permitted (Active).
C4_LayerGatingClaimed ==
    InsideWindow =>
        /\ (lost.rule.layer = 1 /\ ctx.tooltip.transfer.layer = 0)
              => (ctx.state = "Delayed" /\ ctx.timer = ctx.tooltip.activation.delay)
        /\ (lost.rule.layer = 0 /\ ctx.tooltip.transfer.layer = 1)
              => ctx.state = "Active"

\* C4 as amended (SpecTransfer): inside the window, layer 1 -> layer 0 is
\* permitted (straight to Active) and layer 0 -> layer 1 is denied (Delayed
\* with the target's own delay): a transfer goes to the same layer or lower.
C4_LayerGating ==
    InsideWindow =>
        /\ (lost.rule.layer = 1 /\ ctx.tooltip.transfer.layer = 0)
              => ctx.state = "Active"
        /\ (lost.rule.layer = 0 /\ ctx.tooltip.transfer.layer = 1)
              => (ctx.state = "Delayed" /\ ctx.timer = ctx.tooltip.activation.delay)
        /\ (lost.rule.layer = ctx.tooltip.transfer.layer)
              => ctx.state = "Active"

C4_Witness ==
    /\ InsideWindow
    /\ lost.rule.layer = 1 /\ ctx.tooltip.transfer.layer = 0
    /\ ctx.state = "Active"

\* A frame that started Active, found the same target again and ended Active.
RehoverActive ==
    /\ InFrame
    /\ old.state = "Active"
    /\ frame.found = old.target
    /\ ctx.state = "Active"

\* C5 as claimed (SpecContent): a frame that starts Active, finds the same
\* target and ends Active writes neither a hide nor a show notification.
C5_NoRenotifyClaimed ==
    (RehoverActive /\ pc = "hide") => (hide_msgs = <<>> /\ show_msgs = 0)

\* C5 as amended (SpecContent): such a frame writes exactly one hide
\* notification, naming the content element of the snapshot held at the
\* start of the frame, and exactly one show notification.
C5_Renotify ==
    (RehoverActive /\ pc = "hide") => (hide_msgs = <<old.entity>> /\ show_msgs = 1)

C5_Witness == RehoverActive /\ pc = "hide"

\* The scan left state, target and timer as pointer tracking and the timer
\* tick had left them.
ScanKept ==
    /\ ctx.state = frame.mid.state
    /\ ctx.target = frame.mid.target
    /\ ctx.timer = frame.mid.timer

\* C6 as claimed (SpecDismiss): on a frame whose first qualifying entry is
\* ctx.target while the state is not Inactive, the scan leaves state, target
\* and timer as they were after pointer tracking and the timer tick.
C6_ScanKeepsClaimed ==
    (/\ InFrame
     /\ frame.mid.state # "Inactive"
     /\ frame.found = frame.mid.target)
        => ScanKept

\* C6 as amended (SpecDismiss): the same, for an entry that is not a
\* click-dismissing press (Pressed with dismissal.on_click set); for a
\* click-dismissing press the scan sets the state to Dismissed and leaves
\* target and timer.
C6_ScanKeeps ==
    (/\ InFrame
     /\ frame.mid.state # "Inactive"
     /\ frame.found = frame.mid.target)
        => IF frame.branch = "click"
           THEN /\ ctx.state = "Dismissed"
                /\ ctx.target = frame.mid.target
                /\ ctx.timer = frame.mid.timer
           ELSE ScanKept

C6_Witness ==
    /\ InFrame
    /\ frame.mid.state = "Delayed"
    /\ frame.found = frame.mid.target
    /\ frame.branch = "same"
    /\ ctx.timer > 0
    /\ ctx.timer < ctx.tooltip.activation.delay

\* What is displayed is the given content: its text in the primary text
\* element and the primary container Visible, or its custom element Visible.
Displayed(content) ==
    IF content.kind = "Primary"
    THEN primary_text = content.text /\ visibility[PrimaryContainer] = "Visible"
    ELSE visibility[content.id] = "Visible"

\* The frame ran its resolver, hide and show steps.
Shown == pc = "place"

\* C7 (SpecContent): while a target stays hovered and Active, after the
\* next frame's resolver, hide and show steps the content of the element's
\* Tooltip as the application last set it is what is displayed, and the
\* content element displayed before is hidden if it is another one.
C7_ContentPropagation ==
    (RehoverActive /\ Shown) =>
        /\ Displayed(tooltips[ctx.target].content)
        /\ old.entity # ContentEntity(tooltips[ctx.target].content)
              => visibility[old.entity] = "Hidden"

\* The content was changed while the target stayed hovered and Active.
C7_Witness ==
    /\ RehoverActive /\ Shown
    /\ \/ old.entity # ContentEntity(tooltips[ctx.target].content)
       \/ /\ tooltips[ctx.target].content.kind = "Primary"
          /\ old.text # tooltips[ctx.target].content.text
          /\ old.text # EmptyText

Visible == {e \in ContentEntities : visibility[e] = "Visible"}

\* C8 (SpecContent): after the resolver, hide and show steps of a frame at
\* most one content element is Visible.
C8_AtMostOneVisible ==
    pc \in {"place", "update"} => Cardinality(Visible) <= 1

\* Activation moved between two elements with different custom content.
C8_Witness ==
    /\ Shown
    /\ old.state = "Active" /\ ctx.state = "Active"
    /\ old.target # ctx.target
    /\ old.entity \in CustomEntities
    /\ ContentEntity(ctx.tooltip.content) \in CustomEntities \ {old.entity}
    /\ Cardinality(Visible) = 1

\* A frame that started Delayed with reset on move, saw the pointer at a
\* new position and found the same target again.
MovedWhileDelayed ==
    /\ InFrame
    /\ old.state = "Delayed"
    /\ old.activation.reset_delay_on_cursor_move
    /\ frame.moved
    /\ frame.branch = "same"

\* C9 (Spec): with reset on move and state Delayed, a frame in which the
\* pointer position differs from the stored one leaves the timer at the full
\* delay D.
C9_ResetOnMove ==
    MovedWhileDelayed => ctx.timer = old.activation.delay

\* C10 (Spec): with reset on move and delay D > 0, the state does not go
\* from Delayed to Active on a frame in which the pointer position changed.
C10_IdleActivation ==
    (MovedWhileDelayed /\ old.activation.delay > 0) => ctx.state # "Active"

\* The live pointer of the frame is farther from the stored point than the
\* dismissal distance of the snapshot held at frame start (the square of the
\* on_distance configured when the snapshot was taken).
Far ==
    /\ old.snapshot.dismissal.on_distance # INFINITY
    /\ \E d \in frame.dist2 : d > old.snapshot.dismissal.on_distance

\* C11 (SpecDistance): a frame that starts Active with the live pointer
\* farther than the dismissal distance ends Dismissed if the same target is
\* still the first qualifying entry, with one hide and no show notification
\* written, and ends Inactive if no entry qualifies; with the pointer at or
\* within the distance the state is still Active when the scan begins.
C11_DistanceDismissal ==
    (InFrame /\ old.state = "Active") =>
        /\ (Far /\ frame.found = old.target) =>
               /\ ctx.state = "Dismissed"
               /\ pc = "hide" => (hide_msgs = <<old.entity>> /\ show_msgs = 0)
        /\ (Far /\ frame.found = NoEntity) => ctx.state = "Inactive"
        /\ (frame.dist2 # NoDistance /\ ~Far) => frame.mid.state = "Active"

\* Dismissed by distance while hovering, and the pointer exactly at the
\* dismissal distance without dismissal.
C11_Witness ==
    /\ pc = "hide" /\ old.state = "Active"
    /\ Far /\ frame.found = old.target /\ ctx.state = "Dismissed"

C11_WitnessBoundary ==
    /\ InFrame /\ old.state = "Active"
    /\ \E d \in frame.dist2 : d > 0 /\ d = old.snapshot.dismissal.on_distance
    /\ ctx.state = "Active"

\* A frame that started Dismissed and found the same target again.
StillOnDismissed ==
    /\ InFrame
    /\ old.state = "Dismissed"
    /\ frame.found = old.target

\* C12 (SpecDismiss): once the state is Dismissed for a target, every frame
\* that finds the same target as the first qualifying entry ends Dismissed
\* for that target and writes no show notification, whatever the pointer
\* movement, the elapsed time and the Interaction (Pressed or Hovered); so
\* the state leaves Dismissed only on a frame that finds another entry or
\* none.
C12_DismissedSticky ==
    StillOnDismissed =>
        /\ ctx.state = "Dismissed"
        /\ ctx.target = old.target
        /\ show_msgs = 0

\* Dismissed by a press, then hovered without pressing while the pointer moves.
C12_Witness ==
    /\ StillOnDismissed /\ pc = "hide"
    /\ frame.status = "Hovered"
    /\ frame.moved
    /\ ctx.state = "Dismissed"

\* The frame's first qualifying entry is Pressed and its dismissal.on_click
\* is set.
ClickFound ==
    /\ InFrame
    /\ frame.found \in Targets
    /\ frame.status = "Pressed"
    /\ tooltips[frame.found].dismissal.on_click

\* C13 (SpecClick): when the first qualifying entry is Pressed with
\* dismissal.on_click set, the frame ends with state Dismissed, that element
\* as target and its transfer rule in the snapshot, whatever state and
\* target the frame started from; a frame that started Active writes one
\* hide notification for the content element shown before and no show.
C13_ClickDismissal ==
    ClickFound =>
        /\ ctx.state = "Dismissed"
        /\ ctx.target = frame.found
        /\ ctx.tooltip.transfer = tooltips[frame.found].transfer
        /\ (pc = "hide" /\ old.state = "Active")
              => (hide_msgs = <<old.entity>> /\ show_msgs = 0)

\* A press on another element, of another transfer rule, than the Active one.
C13_Witness ==
    /\ ClickFound /\ pc = "hide"
    /\ old.state = "Active"
    /\ old.target # frame.found
    /\ old.snapshot.transfer # tooltips[frame.found].transfer
    /\ ctx.tooltip.transfer = tooltips[frame.found].transfer
    /\ hide_msgs = <<old.entity>>

\* The frame switched to an element with its own delay > 0 and ended Active:
\* the element skipped its delay.
DelaySkipped ==
    /\ InFrame
    /\ frame.branch = "switch"
    /\ ctx.tooltip.activation.delay > 0
    /\ ctx.state = "Active"

\* C14 (SpecGroup): an element N other than the previous target P skips its
\* delay only if the transfer groups of P's snapshot and of N are both set
\* and equal; with either group None only P itself skips its delay.
C14_GroupRule ==
    (DelaySkipped /\ ctx.target # old.target) =>
        /\ old.snapshot.transfer.group # None
        /\ ctx.tooltip.transfer.group # None
        /\ old.snapshot.transfer.group = ctx.tooltip.transfer.group

\* A skip between two elements of one group.
C14_Witness ==
    /\ DelaySkipped /\ ctx.target # old.target
    /\ old.target \in Targets
    /\ ctx.tooltip.transfer.group = Some(1)

\* A skip back into the previous target, whose group is None.
C14_WitnessSelf ==
    /\ DelaySkipped /\ ctx.target = old.target
    /\ ctx.tooltip.transfer.group = None

\* C15 (SpecGroup): with from_active set, an element skips its delay only
\* inside a window opened by the loss of a tooltip that was Active when the
\* frame that lost it began (a show notification had been written for it),
\* never after a target that was only Delayed, also when the delay of that
\* target ran out on the frame that no longer found it.
C15_FromActiveGating ==
    (DelaySkipped /\ old.snapshot.transfer.from_active) => lost.phase = "arrived"

\* What one stack entry alone makes of the context the scan started from:
\* the arm of the loop body chosen by its spec and status, or the no-target
\* step when there is no such entry.
DecidedBy(m, entity, status) ==
    IF entity = NoEntity THEN LoseTarget(m)
    ELSE IF IsClickDismiss(tooltips[entity], status)
         THEN ClickDismiss(m, entity, tooltips[entity])
    ELSE IF IsSameTarget(m, entity) THEN StillHovering(m, tooltips[entity])
    ELSE SwitchTarget(m, entity, tooltips[entity])

\* C16 (SpecClick): the state, target, timer and snapshot a frame's scan
\* leaves are those decided by the topmost stack entry that has a tooltip
\* spec and a status other than None, and they are the same for every
\* assignment of statuses to the entries that has this first qualifying
\* entry with this status: entries without a spec or with status None are
\* passed over and no entry below the first qualifying one changes them.
C16_TopmostWins ==
    pc = "hide" =>
        /\ MidOf(ctx) = DecidedBy(frame.mid, frame.found, frame.status)
        /\ \A inter \in [Targets -> Interactions] :
               (/\ FirstQualifying(tooltips, inter) = frame.found
                /\ StatusOf(tooltips, inter) = frame.status)
               => MidOf(TargetScan(frame.mid, tooltips, inter)) = MidOf(ctx)

\* The topmost element with a spec decided the frame although the element
\* below it, with another spec, was the target before.
C16_Witness ==
    /\ pc = "hide"
    /\ frame.found = "b" /\ old.target = "a" /\ old.state = "Active"
    /\ tooltips["a"] # tooltips["b"]
    /\ ctx.target = "b" /\ frame.branch = "switch"

\* The placement the frame computed and the rectangles it read.
PlacedRect == layout.target[ctx.target]
PlacedPadding == ctx.tooltip.placement.clamp_padding
PlacedInset(side) ==
    Resolve(PlacedPadding[side],
            IF side \in {"left", "right"}
            THEN layout.target_size[1] ELSE layout.target_size[2])

\* Anchor top-left of the tooltip on the fixed top-left of the target, no
\* offset and no padding, and the unclamped position is inside the range.
RoundTripCase ==
    /\ calc.done
    /\ ctx.tooltip.placement.anchor_point = TOP_LEFT
    /\ ctx.tooltip.placement.target_point = Fixed(TOP_LEFT)
    /\ calc.offset[1] = 0
    /\ calc.offset[2] = 0
    /\ \A side \in {"left", "right", "top", "bottom"} :
           PlacedInset(side) = 0
    /\ \A i \in 1..2 : calc.lo[i] <= calc.unclamped[i] /\ calc.unclamped[i] <= calc.hi[i]

\* C17 (SpecPlace): in the round-trip case the top-left before rounding
\* (center minus half size) is the top-left of the target rectangle, for
\* every stored pointer position.
C17_RoundTrip ==
    RoundTripCase =>
        VSub(calc.clamped, calc.half_size) =
            VSub(PlacedRect.center, HalfSize(PlacedRect.size))

\* The horizontal clamp range is empty before it is collapsed.
CollapsedX ==
    /\ calc.done
    /\ calc.half_size[1] + PlacedInset("left") >
           layout.viewport[1] - calc.half_size[1] - PlacedInset("right")

\* C18 as claimed: the collapsed horizontal center is the midpoint of the
\* viewport for all insets.
C18_CollapseClaimed == CollapsedX => 2 * calc.clamped[1] = layout.viewport[1]

\* C18 (SpecPlace): when the horizontal clamp range is empty, the horizontal
\* center before rounding is the midpoint of the viewport shrunk by the left
\* and right insets, (viewport_width + left - right) / 2, whatever the
\* unclamped position is; it is viewport_width / 2 when the insets are equal.
C18_Collapse ==
    CollapsedX =>
        /\ 2 * calc.clamped[1] =
               layout.viewport[1] + PlacedInset("left")
                                  - PlacedInset("right")
        /\ PlacedInset("left") = PlacedInset("right")
               => 2 * calc.clamped[1] = layout.viewport[1]

\* A collapsed range with unequal insets and an unclamped position far from
\* the center that results.
C18_Witness ==
    /\ CollapsedX
    /\ PlacedInset("left") > PlacedInset("right")
    /\ calc.unclamped[1] > layout.viewport[1]

\* C19 (SpecPlace): on an axis whose clamp range is not empty, the center
\* that is written after rounding lies in the range
\* [half_size + near inset, viewport_size - half_size - far inset].
C19_ClampKeepsInside ==
    calc.done =>
        /\ LET lo == calc.half_size[1] + PlacedInset("left")
               hi == layout.viewport[1] - calc.half_size[1]
                        - PlacedInset("right")
           IN lo <= hi => (lo <= calc.pos[1] /\ calc.pos[1] <= hi)
        /\ LET lo == calc.half_size[2] + PlacedInset("top")
               hi == layout.viewport[2] - calc.half_size[2]
                        - PlacedInset("bottom")
           IN lo <= hi => (lo <= calc.pos[2] /\ calc.pos[2] <= hi)

\* The pointer entered an element on the frame at t = 0, at (120,120), and
\* has stayed on it without moving for ms milliseconds of frames.
StayedFor(ms) ==
    /\ hover.on /\ hover.still /\ hover.ms = ms
    /\ ctx.cursor_pos = ScenarioCursor

\* C20 (SpecScenario): with delay 200 ms, frames of 50 ms and the pointer
\* staying at (120,120) on the element it entered at t = 0, the state after
\* the frames at t = 50, 100 and 150 is Delayed, after the frame at t = 200
\* it is Active and that frame writes a show notification, and the top-left
\* of the tooltip before clamping is (136,136).
C20_Scenario ==
    /\ \A ms \in {50, 100, 150} :
           (pc = "hide" /\ StayedFor(ms)) => (ctx.state = "Delayed" /\ show_msgs = 0)
    /\ (pc = "hide" /\ StayedFor(200)) => (ctx.state = "Active" /\ show_msgs = 1)
    /\ (pc = "update" /\ StayedFor(200)) =>
           /\ calc.done
           /\ VSub(calc.unclamped, calc.half_size) = <<Px(136), Px(136)>>

\* The frame at t = 200 has placed the tooltip.
C20_Witness ==
    /\ pc = "update" /\ StayedFor(200)
    /\ ctx.state = "Active" /\ calc.done
    /\ visibility[PrimaryContainer] = "Visible"

\* C25 (SpecTracking): on a frame with a pointer position, the stored point
\* is left as it was if the state after the dismissal check is Active and
\* the snapshot's target point is not Cursor{follow: true}; in every other
\* case it is the live pointer position after the frame.
C25_ActivationPoint ==
    (pc = "hide" /\ input.seen /\ input.cursor # NoCursor) =>
        IF /\ input.pre.state = "Active"
           /\ old.snapshot.placement.target_point # CursorPoint(TRUE)
        THEN ctx.cursor_pos = input.cursor_pos
        ELSE ctx.cursor_pos = input.cursor

\* An Active tooltip that does not follow kept its point while the pointer
\* moved inside the radius.
C25_Witness ==
    /\ pc = "hide" /\ input.seen /\ input.cursor # NoCursor
    /\ input.pre.state = "Active"
    /\ old.snapshot.placement.target_point = CursorPoint(FALSE)
    /\ input.cursor # input.cursor_pos
    /\ ctx.cursor_pos = input.cursor_pos

\* An Active tooltip that follows took the live pointer position.
C25_WitnessFollow ==
    /\ pc = "hide" /\ input.seen /\ input.cursor # NoCursor
    /\ input.pre.state = "Active"
    /\ old.snapshot.placement.target_point = CursorPoint(TRUE)
    /\ input.cursor # input.cursor_pos
    /\ ctx.cursor_pos = input.cursor

\* C28 (SpecTracking): the tick takes the timer of an Inactive or Delayed
\* context to max(0, timer - e) for the frame's elapsed whole milliseconds e,
\* also for e >= 65536, and leaves the timer of an Active or Dismissed one.
C28_TimerTick ==
    (pc = "hide" /\ input.seen) =>
        IF input.pre.state \in {"Inactive", "Delayed"}
        THEN frame.mid.timer =
                 (IF input.pre.timer > input.delta
                  THEN input.pre.timer - input.delta ELSE 0)
        ELSE frame.mid.timer = input.pre.timer

\* The first qualifying entry is neither a click-dismissing press nor the
\* tracked target of a state other than Inactive.
NewTargetFound ==
    /\ pc = "hide"
    /\ frame.found \in Targets
    /\ ~(frame.status = "Pressed" /\ tooltips[frame.found].dismissal.on_click)
    /\ ~(frame.mid.target = frame.found /\ frame.mid.state # "Inactive")

\* The condition of C26 under which the new target is Active at once.
ActivatesAtOnce ==
    LET m == frame.mid
        t == tooltips[frame.found]
    IN \/ t.activation.delay = 0
       \/ /\ m.state = "Inactive"
          /\ m.timer > 0
          /\ m.tooltip.transfer.layer >= t.transfer.layer
          /\ \/ /\ m.tooltip.transfer.group # None
                /\ t.transfer.group # None
                /\ m.tooltip.transfer.group = t.transfer.group
             \/ frame.found = m.target

\* C26 (SpecSwitch): a new target N becomes Active iff its delay is 0, or
\* the state is Inactive with timer > 0, the previous transfer layer is >=
\* N's and the groups are set and equal or N is the previous target;
\* otherwise Delayed; target := N, timer := N's delay, snapshot := N's spec
\* with the dismissal distance squared.
C26_NewTarget ==
    NewTargetFound =>
        /\ ctx.state = (IF ActivatesAtOnce THEN "Active" ELSE "Delayed")
        /\ ctx.target = frame.found
        /\ ctx.timer = tooltips[frame.found].activation.delay
        /\ ctx.tooltip =
               [tooltips[frame.found] EXCEPT !.dismissal.on_distance =
                   tooltips[frame.found].dismissal.on_distance
                       * tooltips[frame.found].dismissal.on_distance]

\* A delay skipped from the upper layer into the lower one of the group.
C26_Witness ==
    /\ NewTargetFound /\ ActivatesAtOnce
    /\ tooltips[frame.found].activation.delay > 0
    /\ frame.found # frame.mid.target
    /\ frame.mid.tooltip.transfer.layer > tooltips[frame.found].transfer.layer
    /\ ctx.state = "Active"

\* A window that does not apply: the new target is on a higher layer.
C26_WitnessDelayed ==
    /\ NewTargetFound /\ ~ActivatesAtOnce
    /\ frame.mid.state = "Inactive" /\ frame.mid.timer > 0
    /\ ctx.state = "Delayed"

\* C27 (SpecSwitch): on a frame that finds no qualifying entry, a state that
\* is not Inactive after the tick becomes Inactive, the target stays, and
\* the timer is the snapshot's transfer.timeout if that state was Active or
\* transfer.from_active is false, and 0 otherwise; an Inactive state keeps
\* what the tick left.
C27_LoseTarget ==
    (pc = "hide" /\ frame.found = NoEntity) =>
        IF frame.mid.state # "Inactive"
        THEN /\ ctx.state = "Inactive"
             /\ ctx.target = frame.mid.target
             /\ ctx.tooltip = frame.mid.tooltip
             /\ ctx.timer =
                    (IF \/ frame.mid.state = "Active"
                        \/ ~frame.mid.tooltip.transfer.from_active
                     THEN frame.mid.tooltip.transfer.timeout ELSE 0)
        ELSE MidOf(ctx) = frame.mid

\* A target that was only Delayed is lost and opens a window, its rule not
\* asking for an Active tooltip.
C27_Witness ==
    /\ pc = "hide" /\ frame.found = NoEntity
    /\ frame.mid.state = "Delayed"
    /\ ~frame.mid.tooltip.transfer.from_active
    /\ ctx.state = "Inactive" /\ ctx.timer = MaxTimeout

\* The content element of the snapshot held when the frame began.
OldContentElement ==
    IF old.snapshot.content.kind = "Primary"
    THEN PrimaryContainer ELSE old.snapshot.content.id

\* C29 (SpecContent): the resolver writes a hide notification only if the
\* state was Active when the frame began, and it names the content element
\* of the snapshot held then; it writes a show notification only if the
\* state is Active when the frame ends; and it writes a hide notification
\* whenever the state was Active at the start and is not at the end.
C29_Notifications ==
    pc = "hide" =>
        /\ hide_msgs # <<>> =>
               (old.state = "Active" /\ hide_msgs = <<OldContentElement>>)
        /\ show_msgs > 0 => ctx.state = "Active"
        /\ (old.state = "Active" /\ ctx.state # "Active") => hide_msgs # <<>>

\* An Active tooltip was dismissed on its target: a hide and no show.
C29_Witness ==
    /\ pc = "hide"
    /\ old.state = "Active" /\ ctx.state = "Dismissed" /\ ctx.target = old.target
    /\ old.snapshot.content.kind = "Custom"
    /\ hide_msgs = <<OldContentElement>> /\ show_msgs = 0

\* The frame wrote a hide and a show that resolve to one content element.
HideAndShowSame ==
    /\ old.state = "Active" /\ ctx.state = "Active"
    /\ frame.found \in Targets
    /\ OldContentElement =
           (IF ctx.tooltip.content.kind = "Primary"
            THEN PrimaryContainer ELSE ctx.tooltip.content.id)

\* C30 (SpecContent): the steps of a frame run in the order resolver, hide,
\* show: the frame that writes a hide and a show for one content element
\* writes both before the hide step runs, and after the show step the
\* element is Visible and, for Primary content, the primary text is the
\* text of the new target's tooltip.
C30_HideBeforeShow ==
    /\ (pc = "hide" /\ HideAndShowSame) =>
           (hide_msgs = <<OldContentElement>> /\ show_msgs = 1)
    /\ (pc = "place" /\ HideAndShowSame) =>
           /\ visibility[OldContentElement] = "Visible"
           /\ ctx.tooltip.content.kind = "Primary" =>
                  primary_text = tooltips[ctx.target].content.text

\* Activation moved between two Primary tooltips with different texts.
C30_Witness ==
    /\ pc = "place" /\ HideAndShowSame
    /\ ctx.target # old.target
    /\ ctx.tooltip.content.kind = "Primary"
    /\ old.text # primary_text
    /\ visibility[PrimaryContainer] = "Visible"

\* C21 (SpecScenario): on a frame whose context state is not Active,
\* place_tooltip writes nothing: the layout top/left, the transform
\* translation and the camera association of every element stay.
C21_PlacementGuard ==
    [][(pc = "place" /\ ctx.state # "Active") => node' = node]_vars

\* A frame that was not Active has run place_tooltip and a tooltip placed
\* by an earlier frame is where it was.
C21_Witness ==
    /\ pc = "update" /\ ctx.state \in {"Inactive", "Delayed"}
    /\ ~calc.done
    /\ node[PrimaryContainer].camera = UiCamera
    /\ node[PrimaryContainer].left = ValPx(Px(136))

\* The content element the context's snapshot names.
PlacedElement ==
    IF ctx.tooltip.content.kind = "Primary"
    THEN PrimaryContainer ELSE ctx.tooltip.content.id

\* A lookup of place_tooltip fails: the target has no transform and size,
\* the content element is missing, no camera is resolved, or the camera has
\* no viewport.
LookupFails ==
    \/ ctx.target \notin DOMAIN layout.target
    \/ PlacedElement \notin DOMAIN layout.size
    \/ layout.camera = NoEntity
    \/ layout.viewport = NoViewport

\* C22 (SpecLookup): if a lookup fails while the state is Active,
\* place_tooltip writes neither the camera association nor top/left nor the
\* translation of any element, and the context is unchanged.
C22_AllOrNothing ==
    [][(pc = "place" /\ ctx.state = "Active" /\ LookupFails)
          => (node' = node /\ ctx' = ctx)]_vars

\* place_tooltip has run with no camera resolved and the tooltip is where
\* an earlier frame placed it.
C22_Witness ==
    /\ pc = "update" /\ ctx.state = "Active" /\ LookupFails
    /\ layout.camera = NoEntity
    /\ ~calc.done
    /\ node[PlacedElement].left = ValPx(Px(1))

\* What an offset is claimed to resolve to on an axis (1 is x, 2 is y).
ClaimedOffset(val, axis) ==
    CASE val.kind = "Px" -> {val.v}
      [] val.kind = "Percent" -> {(layout.viewport[axis] * val.v) \div 100}
      [] OTHER -> {}

\* C24 (SpecLookup): a pixel offset resolves to its value and a percentage
\* offset p to p percent of the viewport width (x) or height (y) of the
\* camera, also when the viewport is smaller than the render target, and
\* the resolved offset is what place_tooltip adds to the position.
C24_OffsetResolution ==
    calc.done =>
        /\ \A o \in ClaimedOffset(ctx.tooltip.placement.offset_x, 1) :
               calc.unclamped[1] = ctx.cursor_pos[1] + calc.half_size[1] + o
        /\ \A o \in ClaimedOffset(ctx.tooltip.placement.offset_y, 2) :
               calc.unclamped[2] = ctx.cursor_pos[2] + calc.half_size[2] + o

\* The hide step runs for a notification that names a missing element.
HideOfMissing ==
    /\ pc = "hide"
    /\ hide_msgs # <<>>
    /\ \A i \in 1..Len(hide_msgs) : visibility[hide_msgs[i]] = Missing

\* The show step runs and resolves to a missing element.
ShowOfMissing ==
    /\ pc = "show"
    /\ show_msgs > 0
    /\ visibility[PlacedElement] = Missing

\* C23 (SpecMissing): a hide step whose notification names a missing
\* element, and a show step that resolves to a missing element, change no
\* element's visibility, no text and no field of the context.
C23_MissingNoOp ==
    [][(HideOfMissing \/ ShowOfMissing)
          => (visibility' = visibility /\ primary_text' = primary_text
              /\ ctx' = ctx)]_vars

\* The show step runs: a show notification was written this frame.
ShowRuns == pc = "show" /\ show_msgs > 0

\* C31 (SpecContent): when the show step runs with Primary content (the
\* primary text element and the container exist), the primary text element
\* afterwards holds the text the snapshot held, the snapshot's text is
\* RichText::default() and the primary container is Visible; with Custom
\* content the custom element is Visible and the snapshot is unchanged.  No
\* other field of the context (state, target, timer, cursor_pos, the rules of
\* the snapshot) is changed by the step.
C31_ShowDrains ==
    [][ShowRuns =>
          IF ctx.tooltip.content.kind = "Primary"
          THEN /\ primary_text' = ctx.tooltip.content.text
               /\ ctx' = [ctx EXCEPT !.tooltip.content.text = EmptyText]
               /\ visibility'[PrimaryContainer] = "Visible"
          ELSE /\ visibility'[ctx.tooltip.content.id] = "Visible"
               /\ primary_text' = primary_text
               /\ ctx' = ctx]_vars

\* The show step has run for an Active Primary tooltip whose text differs
\* from the one displayed before: the text is in the element and the
\* snapshot is drained.
C31_Witness ==
    /\ pc = "place" /\ ctx.state = "Active"
    /\ frame.found = ctx.target
    /\ ctx.tooltip.content = Primary(EmptyText)
    /\ primary_text = tooltips[ctx.target].content.text
    /\ primary_text \in Texts /\ old.text \in Texts \ {primary_text}
    /\ visibility[PrimaryContainer] = "Visible"

\* The show step has run for a Custom tooltip: its element is Visible and
\* the snapshot is the element's Tooltip.
C31_WitnessCustom ==
    /\ pc = "place" /\ ctx.state = "Active"
    /\ frame.found = ctx.target
    /\ ctx.tooltip.content.kind = "Custom"
    /\ ctx.tooltip.content = tooltips[ctx.target].content
    /\ visibility[ctx.tooltip.content.id] = "Visible"

\* The parity place_tooltip rounds an axis by, the center before and after
\* rounding and the top-left that is written, in eighths of a pixel.
RoundedEven(i) == (Round(layout.size[PlacedElement][i]) \div Px(1)) % 2 = 0
WrittenTopLeft == <<node[PlacedElement].left.v, node[PlacedElement].top.v>>

\* C32 (SpecRound): on each axis, if the rounded dimension of the tooltip is
\* even the final center is a whole pixel, and if it is odd a whole pixel
\* plus a half; it is the one nearest to the clamped value, the upper one of
\* two that are equally near, also for negative values; and for a whole
\* dimension the top-left that is written is a whole pixel.
C32_PixelRounding ==
    calc.done =>
        \A i \in 1..2 :
            /\ IF RoundedEven(i)
               THEN calc.pos[i] % Px(1) = 0
               ELSE (calc.pos[i] - Px(1) \div 2) % Px(1) = 0
            /\ 2 * (calc.clamped[i] - calc.pos[i]) < Px(1)
            /\ 2 * (calc.pos[i] - calc.clamped[i]) <= Px(1)
            /\ layout.size[PlacedElement][i] % Px(1) = 0
                   => WrittenTopLeft[i] % Px(1) = 0

\* A tie below zero on both axes: the center -1.5 of an even width went up
\* to -1, and the center -2 of an odd height to -1.5.
C32_Witness ==
    /\ calc.done
    /\ RoundedEven(1) /\ calc.clamped[1] = -Px(1) - Px(1) \div 2
    /\ calc.pos[1] = -Px(1)
    /\ ~RoundedEven(2) /\ calc.clamped[2] = -Px(2)
    /\ calc.pos[2] = -Px(1) - Px(1) \div 2
    /\ WrittenTopLeft = <<-Px(2), -Px(3)>>

\* C33 (Spec): after the resolver of every frame, a state other than
\* Inactive implies that the target is the first qualifying entry of the
\* frame's stack (it has a Tooltip and its Interaction is not None); so the
\* state is not Active for an element that is neither hovered nor pressed,
\* also when the delay runs out on the frame the pointer leaves.
C33_TargetIsHovered ==
    InFrame =>
        /\ ctx.state # "Inactive" =>
               /\ frame.found \in Targets
               /\ ctx.target = frame.found
               /\ frame.status \in {"Hovered", "Pressed"}
        /\ frame.found = NoEntity => ctx.state = "Inactive"

\* The delay ran out on the frame on which no entry qualified: the tick
\* made the state Active and the frame ends Inactive.
C33_Witness ==
    /\ pc = "place"
    /\ old.state = "Delayed" /\ frame.mid.state = "Active"
    /\ frame.found = NoEntity /\ frame.status = "None"
    /\ ctx.state = "Inactive" /\ ctx.target = old.target

\* The content elements that are to be Visible: the one the snapshot names
\* while the state is Active, none otherwise.
ToBeVisible ==
    IF ctx.state = "Active" THEN {ContentEntity(ctx.tooltip.content)} ELSE {}

\* C34 (SpecClick): starting from the default context with every content
\* element hidden, after the resolver, hide and show steps of each frame the
\* content element of the snapshot is Visible if and only if the state is
\* Active, and every other content element is hidden.
C34_VisibilityTracksState ==
    pc \in {"place", "update"} => Visible = ToBeVisible

\* The content of an Active tooltip was replaced by content in another
\* element while it stayed hovered, and later the tooltip was dismissed.
C34_Witness ==
    /\ pc = "place"
    /\ old.state = "Active" /\ ctx.state = "Dismissed"
    /\ old.target = ctx.target
    /\ old.entity = PrimaryContainer
    /\ tooltips[ctx.target].content.kind = "Custom"
    /\ Visible = {}

\* The content of an Active tooltip moves to another element.
C34_WitnessActive ==
    /\ pc = "place"
    /\ old.state = "Active" /\ ctx.state = "Active"
    /\ old.target = ctx.target
    /\ old.entity # ContentEntity(ctx.tooltip.content)
    /\ Visible = {ContentEntity(ctx.tooltip.content)}

\* C35 (Spec): after the resolver of every frame, state Delayed implies
\* that the timer is above zero, whatever the pointer does under reset on
\* move and whatever delay the application gives the hovered element
\* between frames.
C35_DelayedCountsDown ==
    ctx.state = "Delayed" => ctx.timer > 0

\* The application set the delay of the hovered element to zero while it
\* was Delayed with reset on move, and the pointer moved on the next frame:
\* the frame ends Delayed with the countdown running.
C35_Witness ==
    /\ pc = "place"
    /\ old.state = "Delayed" /\ ctx.state = "Delayed"
    /\ old.activation.reset_delay_on_cursor_move
    /\ old.activation.delay = MaxDelay
    /\ frame.moved
    /\ ctx.tooltip.activation.delay = 0
    /\ ctx.timer > 0

\* C36 (SpecLive): from state Inactive, with an element staying the first
\* qualifying entry with status Hovered, the pointer not moving and every
\* frame lasting at least 1 ms, the state eventually is Active with a show
\* notification written.
C36_EventualActivation ==
    <>(ctx.state = "Active" /\ show_msgs > 0)

\* C37 (SpecDismiss): whenever the state after the resolver of a frame is
\* Delayed or Active, the dismissal threshold of the snapshot is exactly the
\* square of the on_distance of the current target's Tooltip: a snapshot
\* taken again over the same target on the next frame is derived from the
\* element's Tooltip and does not square a squared value.
C37_SquaredThreshold ==
    (InFrame /\ ctx.state \in {"Delayed", "Active"}) =>
        /\ ctx.target \in Targets
        /\ ctx.tooltip.dismissal.on_distance =
               (IF tooltips[ctx.target].dismissal.on_distance = INFINITY
                THEN INFINITY
                ELSE tooltips[ctx.target].dismissal.on_distance
                         * tooltips[ctx.target].dismissal.on_distance)

\* The snapshot was taken again over the same Active target, whose
\* threshold was a square already when the frame began.
C37_Witness ==
    /\ pc = "place"
    /\ old.state = "Active" /\ ctx.state = "Active"
    /\ frame.branch = "same" /\ ctx.target = old.target
    /\ tooltips[ctx.target].dismissal.on_distance = Radius
    /\ old.snapshot.dismissal.on_distance = Radius * Radius
    /\ ctx.tooltip.dismissal.on_distance = Radius * Radius

====
